---- MODULE Spec2Model ----
(***************************************************************************)
(* State-machine model of succtree (src/src/lib.rs): a usize-ary summary   *)
(* tree of bitmaps with insert, delete, successor, rquery, is_empty, min.  *)
(*                                                                         *)
(* Representation.  A layer is a Vec<usize>; it is modelled as a record    *)
(*   [len |-> number of words, bits |-> set of the positions of the bits   *)
(*    that are 1]                                                          *)
(* where position p lives in word p \div 64 at bit p % 64.  A single word  *)
(* is the set of its set bit indices (a subset of 0..63), so `w != 0` is   *)
(* `w # {}`, `w & 1 << b != 0` is `b \in w` and trailing_zeros is the      *)
(* least member (64 for the zero word).  Layer indices are 0-based as in   *)
(* the source.  Every index into a Vec is bounds-checked: an index outside *)
(* the Vec is a panic, as in Rust.                                         *)
(***************************************************************************)
EXTENDS Integers, Sequences, FiniteSets, TLC

VARIABLES size, tree, panicked, present, last

vars == <<size, tree, panicked, present, last>>

\* size_of::<usize>() * 8 on the 64-bit targets the tests are written for.
BLOCK_SIZE_BYTES == 64

\* Largest number of elements held at once (guard of Insert).
MaxPresent == 3

\* Largest k for which new is called with sizes around 64^k.
MaxSizingExp == 7

\* Largest distance of such a size from 64^k.
MaxSizingOffset == 3

\* Capacities the tree is constructed with (documented precondition N > 0).
Capacities == {1, 2, 64, 65, 4096, 4097, 1000000}

\* Element values the calls are made with.
Probes == {0, 1, 5, 63, 64, 65, 4095, 4096, 99999, 100000}

SetMin(S) == CHOOSE m \in S : \A e \in S : m <= e

RECURSIVE Pow(_, _)
Pow(b, e) == IF e = 0 THEN 1 ELSE b * Pow(b, e - 1)

(***************************************************************************)
(* SuccTree::new.  Its size is a usize, and the sizes at which its f64     *)
(* arithmetic matters (64^7 = 2^42) are wider than the 32-bit integers     *)
(* TLC computes with.  new is therefore computed on the base-64 digits of  *)
(* the size, least significant first, without a leading zero digit (0 is   *)
(* the empty sequence), and new(n) applies it to the digits of n.          *)
(***************************************************************************)
RECURSIVE ToDigits(_)
ToDigits(n) ==
  IF n = 0 THEN << >>
  ELSE <<n % BLOCK_SIZE_BYTES>> \o ToDigits(n \div BLOCK_SIZE_BYTES)

RECURSIVE FromDigits(_)
FromDigits(d) ==
  IF d = << >> THEN 0 ELSE d[1] + BLOCK_SIZE_BYTES * FromDigits(Tail(d))

\* d + 1
RECURSIVE Inc(_)
Inc(d) ==
  IF d = << >> THEN <<1>>
  ELSE IF d[1] < BLOCK_SIZE_BYTES - 1 THEN <<d[1] + 1>> \o Tail(d)
  ELSE <<0>> \o Inc(Tail(d))

\* (x / 64.0.powi(i)).ceil() on f64: x is an integer below 2^53 and the
\* divisor a power of two, so the quotient is exact before ceil().  The
\* quotient drops the i low digits; ceil() adds one if any of them is not 0.
CeilDiv(d, i) ==
  LET quotient == SubSeq(d, i + 1, Len(d))
  IN  IF \E j \in 1..i : j <= Len(d) /\ d[j] # 0 THEN Inc(quotient) ELSE quotient

\* The largest power of two p with p * den <= num (num >= den > 0).
RECURSIVE FloorPow2(_, _)
FloorPow2(num, den) == IF 2 * den > num THEN 1 ELSE 2 * FloorPow2(num, 2 * den)

\* 64.0.ln() is the f64 4682486076124019 * 2^-50 = 4.1588830833596715.
\* Its value in ten-thousandths, rounded up:
LnBlockTenThousandths == 41589

\* The low six bits of its significand 4682486076124019:
LnBlockSignificandLow == 51

\* The real ln 64 is (4682486076124019 + 0.40666...) * 2^-50: what rounding
\* to f64 dropped, in 1/ResidueScale of a unit of the last place.
LnBlockResidue == 40666

ResidueScale == 100000

\* (64^k as f64).ln() - k * 64.0.ln() in units of 2^-50, the last place of
\* 64.0.ln(), for k >= 1; ln() returns the f64 nearest to the real
\* logarithm.  In those units k ln 64 is k * significand + k * residue and
\* its f64 is the nearest multiple of u, the last place of a number of the
\* size of k ln 64 (u = 1 on [4, 8), 2 on [8, 16), ...).
LnPowerExcess(k) ==
  LET u == FloorPow2(k * LnBlockTenThousandths, 4 * 10000)
      r == (k * LnBlockSignificandLow) % u
      t == r * ResidueScale + k * LnBlockResidue
      nearest == (2 * t + u * ResidueScale) \div (2 * u * ResidueScale)
  IN  nearest * u - r

\* Whether the f64 quotient (64^k as f64).ln() / 64.0.ln() is above k: it
\* is the f64 nearest to the quotient of the two f64 logarithms, which is
\* k + LnPowerExcess(k) * 2^-50 / 64.0.ln(), and the f64 above k is reached
\* when that exceeds k by more than half the last place of k, 2^-53 times
\* the largest power of two not above k.
QuotientRoundsAbove(k) ==
  8 * LnPowerExcess(k) * 10000 > LnBlockTenThousandths * FloorPow2(k, 1)

\* d is 64^k for some k >= 0.
IsPowerOfBlock(d) ==
  /\ d # << >>
  /\ d[Len(d)] = 1
  /\ \A j \in 1..(Len(d) - 1) : d[j] = 0

\* (size as f64).log(64.0).ceil() as usize, log(64.0) being ln() / 64.0.ln()
\* in f64.
\*  - size = 0: ln is -inf, and the cast of -inf to usize saturates to 0.
\*  - size = 1: ln is 0 and so is the quotient.
\*  - size = 64^k, k >= 1: the real quotient is k, and the f64 quotient is
\*    k or the f64 next to it; ceil() of the f64 above k is k + 1.
\*  - otherwise the real quotient lies strictly between two integers, at
\*    1 / (size * ln 64) or more from both, and the f64 quotient is within
\*    a few last places of it (1e-14): ceil() is the number of base-64
\*    digits of size.  This holds with a margin for the sizes up to
\*    64^7 + 3 that are constructed (5e-14), and no longer above 2^53,
\*    where `size as f64` itself rounds.
CeilLog(d) ==
  IF d = << >> THEN 0
  ELSE IF IsPowerOfBlock(d)
       THEN LET k == Len(d) - 1
            IN  IF k >= 1 /\ QuotientRoundsAbove(k) THEN k + 1 ELSE k
       ELSE Len(d)

\* let layer_size = ((size as f64) / block_size_f64.powi(i)).ceil();
\* let layer_size = (layer_size / block_size_f64).ceil() as usize;
layer_size(d, i) == CeilDiv(CeilDiv(d, i), 1)

\* The outcome of SuccTree::new: its signature is `-> SuccTree`, it has no
\* error path and nothing in it can panic, whatever the size.
new_outcome(n) == "Ok"

\* SuccTree::new on the digits of size; the word counts are digits too.
new_digits(d) ==
  LET layers == CeilLog(d) + 1
  IN  [i \in 0..(layers - 1) |-> [len |-> layer_size(d, i), bits |-> {}]]

\* SuccTree::new
new(n) ==
  LET t == new_digits(ToDigits(n))
  IN  [i \in DOMAIN t |-> [len |-> FromDigits(t[i].len), bits |-> {}]]

\* self.tree.len()
NumLayers(t) == Cardinality(DOMAIN t)

\* Whether self.tree[layer][word] is inside both Vecs.
InBounds(t, layer, word) == layer \in DOMAIN t /\ word >= 0 /\ word < t[layer].len

\* self.tree[layer][word] as the set of its set bit indices.
Word(t, layer, word) ==
  {p % BLOCK_SIZE_BYTES : p \in {q \in t[layer].bits : q \div BLOCK_SIZE_BYTES = word}}

\* usize::trailing_zeros
trailing_zeros(w) == IF w = {} THEN BLOCK_SIZE_BYTES ELSE SetMin(w)

\* Mutant of SetBit: `^=` written for `|=`.
SetBitToggles(t, layer, item) ==
  [t EXCEPT ![layer].bits = IF item \in @ THEN @ \ {item} ELSE @ \cup {item}]

\* self.tree[layer][item / 64] |= 1 << item % 64
SetBit(t, layer, item) == [t EXCEPT ![layer].bits = @ \cup {item}]

\* Mutant of ClearBit: the whole word is zeroed (`= 0` for `&= !(..)`).
ClearBitClearsWord(t, layer, item) ==
  [t EXCEPT ![layer].bits =
     {q \in @ : q \div BLOCK_SIZE_BYTES # item \div BLOCK_SIZE_BYTES}]

\* self.tree[layer][item / 64] &= !(1 << item % 64)
ClearBit(t, layer, item) == [t EXCEPT ![layer].bits = @ \ {item}]

\* Mutant of move_up_layer: `%` written for `/`.
move_up_layer_modulo(item) == item % BLOCK_SIZE_BYTES

move_up_layer(item) == item \div BLOCK_SIZE_BYTES

move_down(item) == item * BLOCK_SIZE_BYTES

\* Mutant of is_any_sibling_set: tests the bit just cleared, not its word.
is_any_sibling_set_own_bit(t, layer, item) == item \in t[layer].bits

is_any_sibling_set(t, layer, item) == Word(t, layer, item \div BLOCK_SIZE_BYTES) # {}

\* Mutant of is_parent_set: tests the parent's word, not the parent's bit.
is_parent_set_any_bit(t, layer, item) == Word(t, layer, item \div BLOCK_SIZE_BYTES) # {}

is_parent_set(t, layer, item) ==
  (item % BLOCK_SIZE_BYTES) \in Word(t, layer, item \div BLOCK_SIZE_BYTES)

first_item_set_in_block(t, layer, block) ==
  block + trailing_zeros(Word(t, layer, block \div BLOCK_SIZE_BYTES))

\* Mutant of greater_sibling_in_block: the mask stops one bit short
\* (`0..(item % 64)` for `0..=(item % 64)`).
greater_sibling_mask_exclusive(t, layer, item) ==
  LET value == {b \in Word(t, layer, item \div BLOCK_SIZE_BYTES) : b >= item % BLOCK_SIZE_BYTES}
  IN  IF value = {} THEN 0
      ELSE ((item \div BLOCK_SIZE_BYTES) * BLOCK_SIZE_BYTES) + trailing_zeros(value)

greater_sibling_in_block(t, layer, item) ==
  LET value == {b \in Word(t, layer, item \div BLOCK_SIZE_BYTES) : b > item % BLOCK_SIZE_BYTES}
  IN  IF value = {} THEN 0
      ELSE ((item \div BLOCK_SIZE_BYTES) * BLOCK_SIZE_BYTES) + trailing_zeros(value)

(***************************************************************************)
(* Results.  A mutating call yields [tree, panic]; a query yields          *)
(* [panic, ret].  Option<usize> is a sequence: None is << >>, Some(v) is   *)
(* <<v>>.  A Vec<usize> result is a sequence, a bool result is <<b>>.      *)
(***************************************************************************)
Done(t) == [tree |-> t, panic |-> FALSE]

Panic(t) == [tree |-> t, panic |-> TRUE]

Returns(v) == [panic |-> FALSE, ret |-> v]

QueryPanic == [panic |-> TRUE, ret |-> << >>]

\* Body of `for layer in 0..=(self.tree.len() - 2)` in insert.  `wrapped`
\* is the case where the subtraction wrapped to usize::MAX, so that the
\* range never ends before an index panics.
RECURSIVE InsertLoop(_, _, _, _, _)
InsertLoop(t, layer, item, hi, wrapped) ==
  IF ~wrapped /\ layer > hi THEN Done(t)
  ELSE IF ~InBounds(t, layer, item \div BLOCK_SIZE_BYTES) THEN Panic(t)
  ELSE LET t1 == SetBit(t, layer, item)
           up == move_up_layer(item)
       IN  IF ~InBounds(t1, layer + 1, up \div BLOCK_SIZE_BYTES) THEN Panic(t1)
           ELSE IF is_parent_set(t1, layer + 1, up) THEN Done(t1)
           ELSE InsertLoop(t1, layer + 1, up, hi, wrapped)

\* SuccTree::insert.  `self.tree.len() - 2` underflows when there is one
\* layer: with overflow checks (debug profile) that is a panic before any
\* write, without them (release profile) the value wraps to usize::MAX.
insert(t, item, overflow_checks) ==
  IF NumLayers(t) >= 2 THEN InsertLoop(t, 0, item, NumLayers(t) - 2, FALSE)
  ELSE IF overflow_checks THEN Panic(t)
  ELSE InsertLoop(t, 0, item, 0, TRUE)

\* Body of `for layer in 0..=(self.tree.len() - 2)` in delete.
RECURSIVE DeleteLoop(_, _, _, _, _)
DeleteLoop(t, layer, item, hi, wrapped) ==
  IF ~wrapped /\ layer > hi THEN Done(t)
  ELSE IF ~InBounds(t, layer, item \div BLOCK_SIZE_BYTES) THEN Panic(t)
  ELSE LET t1 == ClearBit(t, layer, item)
       IN  IF is_any_sibling_set(t1, layer, item) THEN Done(t1)
           ELSE DeleteLoop(t1, layer + 1, move_up_layer(item), hi, wrapped)

\* Mutant of delete: the loop stops one layer early (`len - 3`).
delete_stops_early(t, item, overflow_checks) ==
  IF NumLayers(t) >= 2 THEN DeleteLoop(t, 0, item, NumLayers(t) - 3, FALSE)
  ELSE IF overflow_checks THEN Panic(t)
  ELSE DeleteLoop(t, 0, item, 0, TRUE)

\* SuccTree::delete
delete(t, item, overflow_checks) ==
  IF NumLayers(t) >= 2 THEN DeleteLoop(t, 0, item, NumLayers(t) - 2, FALSE)
  ELSE IF overflow_checks THEN Panic(t)
  ELSE DeleteLoop(t, 0, item, 0, TRUE)

\* First loop of successor: `while next_sibling == 0 && layer < len - 1`.
\* Yields [panic, layer, next].
RECURSIVE Climb(_, _, _, _)
Climb(t, layer, item, next) ==
  IF next = 0 /\ layer < NumLayers(t) - 1
  THEN LET up == move_up_layer(item)
       IN  IF ~InBounds(t, layer + 1, up \div BLOCK_SIZE_BYTES)
           THEN [panic |-> TRUE, layer |-> layer + 1, next |-> 0]
           ELSE Climb(t, layer + 1, up, greater_sibling_in_block(t, layer + 1, up))
  ELSE [panic |-> FALSE, layer |-> layer, next |-> next]

\* Second loop of successor: `while layer > 0`.
RECURSIVE Descend(_, _, _)
Descend(t, layer, next) ==
  IF layer > 0
  THEN LET item == move_down(next)
       IN  IF ~InBounds(t, layer - 1, item \div BLOCK_SIZE_BYTES) THEN QueryPanic
           ELSE Descend(t, layer - 1, first_item_set_in_block(t, layer - 1, item))
  ELSE Returns(<<next>>)

\* SuccTree::successor
successor(t, item) ==
  IF ~InBounds(t, 0, item \div BLOCK_SIZE_BYTES) THEN QueryPanic
  ELSE LET first == greater_sibling_in_block(t, 0, item)
       IN  IF first # 0 THEN Returns(<<first>>)
           ELSE LET c == Climb(t, 0, item, first)
                IN  IF c.panic THEN QueryPanic
                    ELSE IF c.next = 0 THEN Returns(<< >>)
                    ELSE Descend(t, c.layer, c.next)

\* `while let Some(next_sibling) = self.successor(lower)` in rquery.
RECURSIVE RqueryLoop(_, _, _, _)
RqueryLoop(t, lower, upper, result) ==
  LET s == successor(t, lower)
  IN  IF s.panic THEN QueryPanic
      ELSE IF s.ret = << >> THEN Returns(result)
      ELSE IF s.ret[1] >= upper THEN Returns(result)
      ELSE RqueryLoop(t, s.ret[1], upper, Append(result, s.ret[1]))

\* SuccTree::rquery.  The test before the loop is
\* `(self.tree[0][lower / 64] & 1) == 1`: bit 0 of the word holding lower.
rquery(t, lower, upper) ==
  IF ~InBounds(t, 0, lower \div BLOCK_SIZE_BYTES) THEN QueryPanic
  ELSE RqueryLoop(t, lower, upper,
                  IF 0 \in Word(t, 0, lower \div BLOCK_SIZE_BYTES) THEN <<lower>> ELSE << >>)

\* SuccTree::is_empty.  With one layer `len - 2` underflows: a panic with
\* overflow checks, and index usize::MAX (out of bounds, a panic) without.
is_empty(t) ==
  IF NumLayers(t) < 2 THEN QueryPanic
  ELSE IF ~InBounds(t, NumLayers(t) - 2, 0) THEN QueryPanic
  ELSE Returns(<<Word(t, NumLayers(t) - 2, 0) = {}>>)

\* Mutant of min: the test of leaf bit 0 is left out.
min_without_bit0(t) ==
  IF ~InBounds(t, 0, 0) THEN QueryPanic ELSE successor(t, 0)

\* SuccTree::min
min(t) ==
  IF ~InBounds(t, 0, 0) THEN QueryPanic
  ELSE IF 0 \in Word(t, 0, 0) THEN Returns(<<0>>)
  ELSE successor(t, 0)

(***************************************************************************)
(* The state machine.  size is the capacity given to new, tree the layers, *)
(* panicked whether a call has panicked (the thread unwinds: no later      *)
(* call), present the set of elements the caller has inserted and not      *)
(* deleted since, last the most recent call: its name, its arguments, its  *)
(* result and the tree it was made on.                                     *)
(***************************************************************************)
Call(op, a, b, r, t) == [op |-> op, arg |-> a, arg2 |-> b, ret |-> r, pre |-> t]

\* Arguments inside the documented precondition 0 <= x < N.
InRange == {x \in Probes : x < size}

\* Arguments outside it.
OutOfRange == {x \in Probes : x >= size}

InitWith(caps) ==
  /\ size \in caps
  /\ tree = new(size)
  /\ panicked = FALSE
  /\ present = {}
  /\ last = Call("new", size, 0, << >>, tree)

Init == InitWith(Capacities)

DoInsert(x) ==
  /\ ~panicked
  /\ x \in tree[0].bits \/ Cardinality(tree[0].bits) < MaxPresent
  /\ \E overflow_checks \in BOOLEAN :
       LET r == insert(tree, x, overflow_checks)
       IN  /\ tree' = r.tree
           /\ panicked' = r.panic
  /\ last' = Call("insert", x, 0, << >>, tree)
  /\ UNCHANGED size

DoDelete(x) ==
  /\ ~panicked
  /\ \E overflow_checks \in BOOLEAN :
       LET r == delete(tree, x, overflow_checks)
       IN  /\ tree' = r.tree
           /\ panicked' = r.panic
  /\ last' = Call("delete", x, 0, << >>, tree)
  /\ UNCHANGED size

DoQuery(op, a, b, r) ==
  /\ ~panicked
  /\ panicked' = r.panic
  /\ last' = Call(op, a, b, r.ret, tree)
  /\ UNCHANGED <<size, tree, present>>

Insert == \E x \in InRange : DoInsert(x) /\ present' = present \cup {x}

Delete == \E x \in InRange : DoDelete(x) /\ present' = present \ {x}

Successor == \E x \in InRange : DoQuery("successor", x, 0, successor(tree, x))

Rquery ==
  \E lower \in InRange \cup {size}, upper \in InRange \cup {size} :
    /\ lower <= upper
    /\ DoQuery("rquery", lower, upper, rquery(tree, lower, upper))

IsEmpty == DoQuery("is_empty", 0, 0, is_empty(tree))

MinCall == DoQuery("min", 0, 0, min(tree))

Next == Insert \/ Delete \/ Successor \/ Rquery \/ IsEmpty \/ MinCall

Spec == Init /\ [][Next]_vars

(***************************************************************************)
(* The same machine with the preconditions dropped: capacity 0, and        *)
(* insert, delete and successor called with x >= N.                        *)
(***************************************************************************)
InitAny == InitWith(Capacities \cup {0})

InsertOutOfRange == \E x \in OutOfRange : DoInsert(x) /\ UNCHANGED present

DeleteOutOfRange == \E x \in OutOfRange : DoDelete(x) /\ UNCHANGED present

SuccessorOutOfRange == \E x \in OutOfRange : DoQuery("successor", x, 0, successor(tree, x))

NextAny ==
  \/ Insert \/ Delete \/ Successor \/ IsEmpty \/ MinCall
  \/ InsertOutOfRange \/ DeleteOutOfRange \/ SuccessorOutOfRange

SpecAny == InitAny /\ [][NextAny]_vars

(***************************************************************************)
(* Construction alone, over sizes up to 64^MaxSizingExp + MaxSizingOffset. *)
(* size and the word counts of the layers are base-64 digits here.         *)
(***************************************************************************)
\* d - 1, for d > 0
RECURSIVE Dec(_)
Dec(d) ==
  IF d[1] > 0
  THEN IF Len(d) = 1 /\ d[1] = 1 THEN << >> ELSE <<d[1] - 1>> \o Tail(d)
  ELSE <<BLOCK_SIZE_BYTES - 1>> \o Dec(Tail(d))

\* 64^e
RECURSIVE PowerOfBlock(_)
PowerOfBlock(e) == IF e = 0 THEN <<1>> ELSE <<0>> \o PowerOfBlock(e - 1)

\* d + c, for -d < c
RECURSIVE Offset(_, _)
Offset(d, c) ==
  IF c = 0 THEN d
  ELSE IF c > 0 THEN Offset(Inc(d), c - 1)
  ELSE Offset(Dec(d), c + 1)

\* The sizes new is called with: those around the powers of 64, and the
\* capacities of the tree above (all inside the precondition N > 0).
SizingInputs ==
  {Offset(PowerOfBlock(k), c) :
     <<k, c>> \in {kc \in (0..MaxSizingExp) \X ((0 - MaxSizingOffset)..MaxSizingOffset) :
                     kc[1] >= 1 \/ kc[2] >= 0}}
  \cup {ToDigits(n) : n \in Capacities}

InitNew ==
  /\ size \in SizingInputs
  /\ tree = << >>
  /\ panicked = FALSE
  /\ present = {}
  /\ last = Call("start", size, 0, << >>, << >>)

NewCall ==
  /\ last.op = "start"
  /\ tree' = new_digits(size)
  /\ last' = Call("new", size, 0, << >>, tree)
  /\ UNCHANGED <<size, panicked, present>>

NextNew == NewCall

SpecNew == InitNew /\ [][NextNew]_vars

(***************************************************************************)
(* Reference definitions the claims are stated with.                       *)
(***************************************************************************)
None == << >>

Some(v) == <<v>>

\* The elements of S in ascending order.
RECURSIVE Ascending(_)
Ascending(S) == IF S = {} THEN << >> ELSE <<SetMin(S)>> \o Ascending(S \ {SetMin(S)})

\* Bit b of layer l+1 is set iff some bit of block b of layer l is set.
Summarises(t, l) == t[l + 1].bits = {p \div BLOCK_SIZE_BYTES : p \in t[l].bits}

AllZero(t) == \A l \in DOMAIN t : t[l].bits = {}

\* The least element of S above x, or absence.
LeastAbove(S, x) ==
  LET above == {e \in S : e > x}
  IN  IF above = {} THEN None ELSE Some(SetMin(above))

(***************************************************************************)
(* C1.  Summary invariant I1.                                              *)
(***************************************************************************)
\* C1 as claimed: after any in-range inserts and deletes, for every layer l
\* below the last allocated layer, layer l+1 summarises layer l.
C1_SummaryUpToLastLayer ==
  \A l \in 0..(NumLayers(tree) - 2) : Summarises(tree, l)

\* C1 amended: after any in-range inserts and deletes, for every layer l
\* below the second-to-last allocated layer, layer l+1 summarises layer l
\* (the last allocated layer is not a summary: no call writes it).
C1_SummaryBelowSecondToLast ==
  \A l \in 0..(NumLayers(tree) - 3) : Summarises(tree, l)

\* A delete that changed a tree of at least four layers and left summary
\* bits set two layers above the leaves.
C1_Witness ==
  /\ last.op = "delete"
  /\ ~panicked
  /\ NumLayers(tree) >= 4
  /\ tree # last.pre
  /\ tree[2].bits # {}

(***************************************************************************)
(* C2.  Successor correctness.                                             *)
(***************************************************************************)
\* C2: successor(x) with 0 <= x < N returns the least present element above
\* x, and None exactly when there is none.
C2_SuccessorCorrect ==
  last.op = "successor" =>
    /\ ~panicked
    /\ last.ret = LeastAbove(present, last.arg)

\* successor(65) = 99999: the search climbs two layers and descends again.
C2_Witness ==
  /\ last.op = "successor"
  /\ size = 1000000
  /\ last.arg = 65
  /\ last.ret = Some(99999)
  /\ 0 \in present

(***************************************************************************)
(* C3.  Range query exactness.                                             *)
(***************************************************************************)
\* C3: rquery(lower, upper) with 0 <= lower <= upper <= N returns exactly
\* the present elements e with lower <= e < upper, ascending, each once.
C3_RqueryExact ==
  last.op = "rquery" =>
    /\ ~panicked
    /\ last.ret = Ascending({e \in present : last.arg <= e /\ e < last.arg2})

(***************************************************************************)
(* C4.  Emptiness.                                                         *)
(***************************************************************************)
\* C4: is_empty() returns true iff no element is present, on a fresh tree
\* and after any in-range inserts and deletes.
C4_IsEmptyIffNothingPresent ==
  last.op = "is_empty" =>
    /\ ~panicked
    /\ last.ret = <<present = {}>>

(***************************************************************************)
(* C5.  min correctness.                                                   *)
(***************************************************************************)
\* C5: min() returns the least present element, and None exactly when no
\* element is present.
C5_MinCorrect ==
  last.op = "min" =>
    /\ ~panicked
    /\ last.ret = IF present = {} THEN None ELSE Some(SetMin(present))

\* min() found its answer by a successor search across blocks.
C5_Witness ==
  /\ last.op = "min"
  /\ last.ret = Some(4096)
  /\ Cardinality(present) >= 2

(***************************************************************************)
(* C6.  Idempotence I3.                                                    *)
(***************************************************************************)
\* C6: insert(x) of a present x and delete(x) of an absent x (0 <= x < N)
\* leave every word of every layer unchanged.
C6_Idempotent ==
  /\ (last.op = "insert" /\ last.arg \in last.pre[0].bits) => tree = last.pre
  /\ (last.op = "delete" /\ last.arg \notin last.pre[0].bits) => tree = last.pre

\* insert of an element that was already present, other elements around it.
C6_Witness ==
  /\ last.op = "insert"
  /\ ~panicked
  /\ last.arg \in last.pre[0].bits
  /\ NumLayers(tree) >= 3
  /\ Cardinality(present) >= 2

(***************************************************************************)
(* C7.  Round trip.                                                        *)
(***************************************************************************)
\* C7: once every inserted element has been deleted again (insert(x) then
\* delete(x) on an empty tree being the shortest case), every layer is zero.
C7_RoundTrip == present = {} => AllZero(tree)

\* The delete of the sole element of a tree of at least four layers.
C7_Witness ==
  /\ last.op = "delete"
  /\ ~panicked
  /\ NumLayers(tree) >= 4
  /\ present = {}
  /\ last.pre[0].bits = {last.arg}
  /\ last.pre[2].bits # {}

(***************************************************************************)
(* C8.  Operations complete.                                               *)
(***************************************************************************)
\* C8: for every capacity N >= 1 and every 0 <= x < N, insert, delete,
\* successor, min and is_empty finish normally (no panic).
C8_CallsComplete ==
  last.op \in {"insert", "delete", "successor", "min", "is_empty"} => ~panicked

(***************************************************************************)
(* C9.  Out-of-range rejection.                                            *)
(***************************************************************************)
\* C9: insert(x), delete(x) and successor(x) with x >= N are rejected and
\* change no bit of any layer.
C9_OutOfRangeRejected ==
  (last.op \in {"insert", "delete", "successor"} /\ last.arg >= size) =>
    /\ panicked
    /\ tree = last.pre

(***************************************************************************)
(* C10.  Capacity 0.                                                       *)
(***************************************************************************)
\* C10: construction with capacity 0 fails with InvalidCapacity.
C10_ZeroCapacityFails == size = 0 => new_outcome(size) = "InvalidCapacity"

(***************************************************************************)
(* C11.  Construction sizing.                                              *)
(***************************************************************************)
\* a < b on digits
Less(a, b) ==
  \/ Len(a) < Len(b)
  \/ /\ Len(a) = Len(b)
     /\ \E j \in 1..Len(a) :
          /\ a[j] < b[j]
          /\ \A i \in (j + 1)..Len(a) : a[i] = b[i]

\* d * 64^k
TimesPowerOfBlock(d, k) ==
  IF d = << >> THEN << >> ELSE SubSeq(PowerOfBlock(k), 1, k) \o d

\* q is the ceiling of a / 64^k.
IsCeiling(q, a, k) ==
  /\ ~Less(TimesPowerOfBlock(q, k), a)
  /\ q # << >> => Less(TimesPowerOfBlock(Dec(q), k), a)

\* The ceiling of a / 64^k.
CeilingOf(a, k) ==
  IF a = << >> THEN << >> ELSE Inc(SubSeq(Dec(a), k + 1, Len(Dec(a))))

\* The word counts of the layers, leaves first.
LayerLens(t) == [l \in 1..NumLayers(t) |-> FromDigits(t[l - 1].len)]

\* C11: new(N) allocates ceil(log_K N) + 1 zero-filled layers, that is L
\* layers with K^(L-2) < N <= K^(L-1), layer l of ceil(ceil(N / K^l) / K)
\* words; N = 1000000 gives 15625, 245, 4, 1, 1 and N = 64 gives 1, 1.
C11_ConstructionSizing ==
  last.op = "new" =>
    LET L == NumLayers(tree)
    IN  /\ ~Less(PowerOfBlock(L - 1), size)
        /\ L >= 2 => Less(PowerOfBlock(L - 2), size)
        /\ \A l \in 0..(L - 1) : IsCeiling(tree[l].len, CeilingOf(size, l), 1)
        /\ AllZero(tree)
        /\ size = ToDigits(1000000) => LayerLens(tree) = <<15625, 245, 4, 1, 1>>
        /\ size = ToDigits(64) => LayerLens(tree) = <<1, 1>>

(***************************************************************************)
(* C12.  Lower bound of rquery.                                            *)
(***************************************************************************)
\* The elements of a sequence.
Elements(q) == {q[i] : i \in 1..Len(q)}

\* C12: for 0 <= lower < upper <= N the result of rquery(lower, upper)
\* contains lower iff lower itself is present.
C12_LowerIncludedIffPresent ==
  (last.op = "rquery" /\ last.arg < last.arg2) =>
    (last.arg \in Elements(last.ret) <=> last.arg \in present)

(***************************************************************************)
(* C13.  The last allocated layer.                                         *)
(***************************************************************************)
\* C13: the last allocated layer is never written (it stays zero whatever
\* is present), and the layer is_empty reads is the second-to-last layer,
\* which consists of a single word.
C13_LastLayerUnused ==
  LET L == NumLayers(tree)
  IN  /\ tree[L - 1].bits = {}
      /\ L >= 2
      /\ tree[L - 2].len = 1

(***************************************************************************)
(* C14.  History independence.                                             *)
(***************************************************************************)
\* The layers a tree of capacity n holds when exactly the elements of S are
\* present: the leaves are S, each layer up to the second-to-last holds the
\* ancestors of S, the last layer is zero.
LayersOf(n, S) ==
  LET L == NumLayers(new(n))
  IN  [l \in 0..(L - 1) |->
         [len  |-> new(n)[l].len,
          bits |-> IF l = 0 \/ l <= L - 2
                   THEN {p \div Pow(BLOCK_SIZE_BYTES, l) : p \in S}
                   ELSE {}]]

\* C14: after any sequence of in-range inserts and deletes that returned,
\* the layers are a function of the set of present elements alone.
C14_HistoryIndependent == ~panicked => tree = LayersOf(size, present)

\* A delete that emptied a leaf word and cleared its summary bit while
\* other elements stayed present.
C14_Witness ==
  /\ last.op = "delete"
  /\ ~panicked
  /\ NumLayers(tree) >= 4
  /\ Cardinality(present) >= 2
  /\ tree[1].bits # last.pre[1].bits

(***************************************************************************)
(* C15.  Delete early exit.                                                *)
(***************************************************************************)
\* The position of the ancestor of x in layer l.
AncestorAt(x, l) == x \div Pow(BLOCK_SIZE_BYTES, l)

\* The word of t holding the ancestor of x in layer l keeps a set bit once
\* that ancestor's own bit is cleared.
SiblingRemains(t, x, l) ==
  \E q \in t[l].bits :
    /\ q # AncestorAt(x, l)
    /\ q \div BLOCK_SIZE_BYTES = AncestorAt(x, l) \div BLOCK_SIZE_BYTES

\* C15: delete(x) of a present x whose leaf word holds another present
\* element clears leaf bit x and nothing else; in general no layer above
\* the first one whose word stays non-zero is changed.
C15_DeleteStopsAtSibling ==
  last.op = "delete" =>
    /\ (last.arg \in last.pre[0].bits /\ SiblingRemains(last.pre, last.arg, 0)) =>
         tree = [last.pre EXCEPT ![0].bits = @ \ {last.arg}]
    /\ \A l \in DOMAIN tree :
         (\E j \in 0..(l - 1) : SiblingRemains(last.pre, last.arg, j)) =>
           tree[l] = last.pre[l]

\* The delete of one of two elements of the same leaf word, several layers.
C15_Witness ==
  /\ last.op = "delete"
  /\ ~panicked
  /\ NumLayers(tree) >= 3
  /\ last.arg \in last.pre[0].bits
  /\ SiblingRemains(last.pre, last.arg, 0)
  /\ tree # last.pre

(***************************************************************************)
(* C16.  Insert early exit.                                                *)
(***************************************************************************)
\* C16: insert(x) of an absent x whose parent bit in layer 1 is set (or
\* whose leaf word already holds an element) sets leaf bit x and nothing
\* else; in general no layer from the first already set ancestor bit up is
\* changed.
C16_InsertStopsAtSetParent ==
  last.op = "insert" =>
    /\ ( /\ last.arg \notin last.pre[0].bits
         /\ \/ NumLayers(tree) >= 2 /\ AncestorAt(last.arg, 1) \in last.pre[1].bits
            \/ SiblingRemains(last.pre, last.arg, 0) ) =>
         tree = [last.pre EXCEPT ![0].bits = @ \cup {last.arg}]
    /\ \A l \in DOMAIN tree :
         (\E j \in 1..l : AncestorAt(last.arg, j) \in last.pre[j].bits) =>
           tree[l] = last.pre[l]

\* The insert of an absent element under a parent bit that was already set.
C16_Witness ==
  /\ last.op = "insert"
  /\ ~panicked
  /\ NumLayers(tree) >= 3
  /\ last.arg \notin last.pre[0].bits
  /\ AncestorAt(last.arg, 1) \in last.pre[1].bits
  /\ tree # last.pre

(***************************************************************************)
(* C17.  rquery terminates.                                                *)
(***************************************************************************)
\* C17: every successor result is above the position searched from, so the
\* loop of rquery ends, and for 0 <= lower <= upper <= N the result of
\* rquery(lower, upper) has at most upper - lower elements.
C17_RqueryBounded ==
  /\ (last.op = "successor" /\ last.ret # None) => last.ret[1] > last.arg
  /\ last.op = "rquery" => Len(last.ret) <= last.arg2 - last.arg

====
